---- MODULE Spec2Model ----
(***************************************************************************)
(* Incremental re-evaluation engine of evaluation_cache (memoize).         *)
(*                                                                         *)
(* A host owns external values (ui_element::i1, i2, ...).  An expression   *)
(* tree built with in() and operator+ is bound by value into a renderer    *)
(* slot; calling the slot runs reevaluate on the bound copy: first the     *)
(* mark_dirty_context traversal, then the eval_cache_context traversal.    *)
(* Both traversals are modelled one proto::eval call or return at a time,  *)
(* with an explicit call stack, so that states in the middle of a pass     *)
(* are visible.                                                            *)
(***************************************************************************)
EXTENDS Integers, Sequences, FiniteSets

\* ------------------------------------------------------------------ bounds

\* External values range over 0..MaxVal (0 is T() for int, the value a fresh
\* input<T>::cache holds).
MaxVal == 1

Values == 0..MaxVal

\* ------------------------------------------------------------- tree shapes

\* The host's external values; i1..i3 are ui_element's fields, i4 is a fourth
\* value for the four-terminal tree.
Vars == {"i1", "i2", "i3", "i4"}

\* A memoize<terminal<input<T>>> node wrapping in(v).
Term(v) == [kind |-> "terminal", var |-> v, kids |-> <<>>]

\* A memoize<plus<L, R>> node generated by operator+; children held by value.
Plus(l, r) == [kind |-> "plus", var |-> "-", kids |-> <<l, r>>]

\* The expression trees the host builds; node 1 is the root.
\*   TreeA  : in(i1)
\*   TreeAB : in(i1) + in(i2)
\*   TreeUI : in(i1) + in(i2) + in(i3), parsed (i1 + i2) + i3
\*   TreeR  : in(i1) + (in(i2) + in(i1)), two terminals on the same value
\*   TreeQ  : (in(i1) + in(i2)) + (in(i3) + in(i4))
TreeA == << Term("i1") >>

TreeAB == << Plus(2, 3), Term("i1"), Term("i2") >>

TreeUI == << Plus(2, 3), Plus(4, 5), Term("i3"), Term("i1"), Term("i2") >>

TreeR == << Plus(2, 3), Term("i1"), Plus(4, 5), Term("i2"), Term("i1") >>

TreeQ == << Plus(2, 3), Plus(4, 5), Plus(6, 7),
            Term("i1"), Term("i2"), Term("i3"), Term("i4") >>

Trees == {TreeA, TreeAB, TreeUI, TreeR, TreeQ}

\* The empty std::function<void()> _f: no tree bound.
NoTree == << >>

Root == 1

Nodes(t) == DOMAIN t

Terminals(t) == {n \in DOMAIN t : t[n].kind = "terminal"}

Operators(t) == {n \in DOMAIN t : t[n].kind = "plus"}

IsTerminal(t, n) == t[n].kind = "terminal"

Arity(t, n) == Len(t[n].kids)

Child(t, n, k) == t[n].kids[k]

\* ------------------------------------------------------------------- state

VARIABLES
    ext,        \* host-owned external values: [Vars -> Values]
    tree,       \* the tree captured in renderer::_f, NoTree while _f is empty
    dirty,      \* memoize::dirty of every node of the bound tree
    cache,      \* input<T>::cache of every terminal of the bound tree
    result,     \* memoize::result of every operator node of the bound tree
    pc,         \* "idle" (host code), "mark", "eval" (inside reevaluate), "done"
    stack,      \* the proto::eval calls in progress, innermost last
    markRet,    \* value returned by the last mark_dirty_context eval that returned
    evalRet,    \* value returned by the last eval_cache_context eval that returned
    ret,        \* value returned by the last completed reevaluate
    prevRet,    \* value returned by the reevaluate before that one
    callKind,   \* "none", "first" or "later": the current or last call on this tree
    extChanged, \* some external value was given a different value since the last call
    rebound,    \* until its first call returns: the bound tree replaced an evaluated one
    lastHost,   \* the last thing the host did: "none", "bind", "write", "noop", "call"
    startDiff,  \* terminals whose external value differed from cache when the call began
    markedDirty,\* dirty as the marking pass left it, taken when evaluation begins
    markCnt,    \* per node: marking operations run on it in this call
    markTrue,   \* nodes whose marking operation returned true in this call
    evalCnt,    \* per node: evaluation operations run on it in this call
    applyCnt,   \* per operator node: operator applications in this call
    other       \* a second copy of the tree the host built, with its own state

treeVars == <<tree, dirty, cache, result>>

callVars == <<startDiff, markedDirty, markCnt, markTrue, evalCnt, applyCnt>>

vars == <<other, ext, tree, dirty, cache, result, pc, stack, markRet, evalRet, ret,
          prevRet, callKind, extChanged, rebound, lastHost, startDiff,
          markedDirty, markCnt, markTrue, evalCnt, applyCnt>>

\* ------------------------------------------------- construction of a tree

\* memoize(Expr const& expr = Expr()) : base_type(expr), dirty(true)
FreshDirty == TRUE

\* input(T& source) : src(source), cache()   -- value-initialised, 0 for int
FreshCache == 0

\* mutable cache_type result; has no initialiser: an indeterminate value.
Indeterminate == Values

\* Variant: rebinding a tree of the same shape keeps the old tree's flags.
BoundDirtyReuse(t) == IF t = tree THEN dirty ELSE [n \in Nodes(t) |-> TRUE]

\* Variant: only the root of a bound tree starts dirty.
BoundDirtyRootOnly(t) == [n \in Nodes(t) |-> n = Root]

\* The dirty flags of a tree built by in() and operator+ and copied into the slot.
BoundDirty(t) == [n \in Nodes(t) |-> FreshDirty]

\* The terminal caches of such a tree.
BoundCache(t) == [n \in Terminals(t) |-> FreshCache]

NoCounts(t) == [n \in Nodes(t) |-> 0]

\* No second copy exists.
NoOther ==
    [tree |-> NoTree, dirty |-> << >>, cache |-> << >>, result |-> << >>,
     callKind |-> "none"]

\* No call in progress and nothing recorded about one.
ResetCall(t) ==
    /\ startDiff' = {}
    /\ markedDirty' = [n \in Nodes(t) |-> FALSE]
    /\ markCnt' = NoCounts(t)
    /\ markTrue' = {}
    /\ evalCnt' = NoCounts(t)
    /\ applyCnt' = NoCounts(t)

Init ==
    /\ ext \in [Vars -> Values]
    /\ tree = NoTree
    /\ dirty = << >>
    /\ cache = << >>
    /\ result = << >>
    /\ pc = "idle"
    /\ stack = << >>
    /\ markRet = FALSE
    /\ evalRet = 0
    /\ ret = 0
    /\ prevRet = 0
    /\ callKind = "none"
    /\ extChanged = FALSE
    /\ rebound = FALSE
    /\ lastHost = "none"
    /\ startDiff = {}
    /\ markedDirty = << >>
    /\ markCnt = << >>
    /\ markTrue = {}
    /\ evalCnt = << >>
    /\ applyCnt = << >>
    /\ other = NoOther

\* -------------------------------------------------------------- host code

\* renderer::operator=(Expr& e): _f = [=]() { reevaluate(e); } captures a copy
\* of the tree the host has just built and drops whatever _f held before.
Bind(t) ==
    /\ pc = "idle"
    /\ tree' = t
    /\ dirty' = BoundDirty(t)
    /\ cache' = BoundCache(t)
    /\ result' \in [Operators(t) -> Indeterminate]
    /\ callKind' = "none"
    /\ rebound' = (tree # NoTree /\ callKind # "none")
    /\ extChanged' = FALSE
    /\ lastHost' = "bind"
    /\ ret' = 0
    /\ prevRet' = 0
    /\ ResetCall(t)
    /\ UNCHANGED <<other, ext, pc, stack, markRet, evalRet>>

\* The host assigns an external value (i1 = 1; e.i2 += 5).
SetExt(v, x) ==
    /\ pc = "idle"
    /\ ext' = [ext EXCEPT ![v] = x]
    /\ extChanged' = (extChanged \/ x # ext[v])
    /\ lastHost' = "write"
    /\ UNCHANGED <<other, treeVars, pc, stack, markRet, evalRet, ret, prevRet,
                   callKind, rebound, callVars>>

\* if (_f) ...
Bound == tree # NoTree

\* Variant: the test of _f is missing, and calling the empty std::function
\* throws std::bad_function_call out of the host's call.
RenderUnboundThrows ==
    /\ pc = "idle"
    /\ tree = NoTree
    /\ pc' = "failed"
    /\ lastHost' = "noop"
    /\ UNCHANGED <<other, ext, treeVars, stack, markRet, evalRet, ret, prevRet,
                   callKind, extChanged, rebound, callVars>>

\* void operator()() { if (_f) _f(); } with _f empty: nothing is called.
RenderUnbound ==
    /\ pc = "idle"
    /\ ~Bound
    /\ lastHost' = "noop"
    /\ UNCHANGED <<other, ext, treeVars, pc, stack, markRet, evalRet, ret, prevRet,
                   callKind, extChanged, rebound, callVars>>

\* The terminals whose external value differs from their cache.
Differing == {n \in Terminals(tree) : cache[n] # ext[tree[n].var]}

CallFrame(n) ==
    [n |-> n, st |-> "call", k |-> 0, acc |-> FALSE, todo |-> {}, vals |-> << >>]

\* Variant: reevaluate goes straight to the evaluation pass.
FirstPassEval == "eval"

\* The first statement of reevaluate: proto::eval(e, mark_dirty_context());
FirstPass == "mark"

\* void operator()() { if (_f) _f(); } with a tree bound: _f() enters
\* reevaluate(e), which starts its first pass at the root.
RenderBound ==
    /\ pc = "idle"
    /\ Bound
    /\ pc' = FirstPass
    /\ stack' = << CallFrame(Root) >>
    /\ callKind' = IF callKind = "none" THEN "first" ELSE "later"
    /\ prevRet' = ret
    /\ lastHost' = "call"
    /\ startDiff' = Differing
    /\ UNCHANGED <<other, ext, treeVars, markRet, evalRet, ret, extChanged, rebound,
                   markedDirty, markCnt, markTrue, evalCnt, applyCnt>>

\* ------------------------------------------------------------- call stack

Top == stack[Len(stack)]

Popped == SubSeq(stack, 1, Len(stack) - 1)

\* The innermost call, replaced by frame f, calls proto::eval on node c.
Calling(f, c) == Append(Append(Popped, f), CallFrame(c))

AtCall(phase) == pc = phase /\ stack # << >> /\ Top.st = "call"

AtReturn(phase) == pc = phase /\ stack # << >> /\ Top.st = "wait"

\* ----------------------------------------------------- mark_dirty_context

\* Variant: the comparison is dropped and a terminal never reports a change.
TerminalDirtyNever(c, s) == FALSE

\* Variant: the comparison is dropped and a terminal always reports a change.
TerminalDirtyAlways(c, s) == TRUE

\* return e.dirty = !(value.cache == value.src);
TerminalDirty(c, s) == ~(c = s)

\* Variant: the early return on an already dirty node is missing.
AlreadyDirtyNever(n) == FALSE

\* if (e.dirty) return e.dirty;
AlreadyDirty(n) == dirty[n]

\* Variant: the fold keeps only the last child's result.
FoldOrLast(acc, r) == r

\* Variant: the fold drops the last child's result.
FoldOrFirst(acc, r) == acc

\* std::logical_or<bool>() applied to the fold state and the child's result.
FoldOr(acc, r) == acc \/ r

\* Variant: the comparison also copies the external value into the cache.
MarkTerminalRefreshing ==
    /\ AtCall("mark")
    /\ LET n == Top.n
           d == TerminalDirty(cache[n], ext[tree[n].var])
       IN  /\ IsTerminal(tree, n)
           /\ dirty' = [dirty EXCEPT ![n] = d]
           /\ cache' = [cache EXCEPT ![n] = ext[tree[n].var]]
           /\ markRet' = d
           /\ markCnt' = [markCnt EXCEPT ![n] = @ + 1]
           /\ markTrue' = IF d THEN markTrue \cup {n} ELSE markTrue \ {n}
           /\ stack' = Popped
    /\ UNCHANGED <<other, ext, tree, result, pc, evalRet, ret, prevRet,
                   callKind, extChanged, rebound, lastHost, startDiff,
                   markedDirty, evalCnt, applyCnt>>

\* mark_dirty_context::eval<Expr, proto::tag::terminal>::operator()
MarkTerminal ==
    /\ AtCall("mark")
    /\ LET n == Top.n
           d == TerminalDirty(cache[n], ext[tree[n].var])
       IN  /\ IsTerminal(tree, n)
           /\ dirty' = [dirty EXCEPT ![n] = d]
           /\ markRet' = d
           /\ markCnt' = [markCnt EXCEPT ![n] = @ + 1]
           /\ markTrue' = IF d THEN markTrue \cup {n} ELSE markTrue \ {n}
           /\ stack' = Popped
    /\ UNCHANGED <<other, ext, tree, cache, result, pc, evalRet, ret, prevRet,
                   callKind, extChanged, rebound, lastHost, startDiff,
                   markedDirty, evalCnt, applyCnt>>

\* mark_dirty_context::eval::operator() on a node already dirty: returns
\* e.dirty without looking at the children.
MarkShortCircuit ==
    /\ AtCall("mark")
    /\ LET n == Top.n
       IN  /\ ~IsTerminal(tree, n)
           /\ AlreadyDirty(n)
           /\ markRet' = dirty[n]
           /\ markCnt' = [markCnt EXCEPT ![n] = @ + 1]
           /\ markTrue' = markTrue \cup {n}
           /\ stack' = Popped
    /\ UNCHANGED <<other, ext, treeVars, pc, evalRet, ret, prevRet, callKind,
                   extChanged, rebound, lastHost, startDiff, markedDirty,
                   evalCnt, applyCnt>>

\* mark_dirty_context::eval::operator() on a clean node: fusion::fold starts
\* with state false and evaluates the first child.
MarkDescend ==
    /\ AtCall("mark")
    /\ LET n == Top.n
       IN  /\ ~IsTerminal(tree, n)
           /\ ~AlreadyDirty(n)
           /\ markCnt' = [markCnt EXCEPT ![n] = @ + 1]
           /\ stack' = Calling([Top EXCEPT !.st = "wait", !.k = 1, !.acc = FALSE],
                               Child(tree, n, 1))
    /\ UNCHANGED <<other, ext, treeVars, pc, markRet, evalRet, ret, prevRet, callKind,
                   extChanged, rebound, lastHost, startDiff, markedDirty,
                   markTrue, evalCnt, applyCnt>>

\* Variant: the fold stops at the first child that reports dirty, as a || over
\* the children would, and the remaining children are not marked.
MarkFoldNextShortCircuit ==
    /\ AtReturn("mark")
    /\ Top.k < Arity(tree, Top.n)
    /\ IF FoldOr(Top.acc, markRet)
       THEN /\ dirty' = [dirty EXCEPT ![Top.n] = TRUE]
            /\ markRet' = TRUE
            /\ markTrue' = markTrue \cup {Top.n}
            /\ stack' = Popped
       ELSE /\ stack' = Calling([Top EXCEPT !.k = @ + 1],
                                Child(tree, Top.n, Top.k + 1))
            /\ UNCHANGED <<dirty, markRet, markTrue>>
    /\ UNCHANGED <<other, ext, tree, cache, result, pc, evalRet, ret, prevRet,
                   callKind, extChanged, rebound, lastHost, startDiff,
                   markedDirty, markCnt, evalCnt, applyCnt>>

\* Variant: the fold does not advance and marks the same child again.
MarkFoldNextStuck ==
    /\ AtReturn("mark")
    /\ Top.k < Arity(tree, Top.n)
    /\ stack' = Calling([Top EXCEPT !.acc = FoldOr(Top.acc, markRet)],
                        Child(tree, Top.n, Top.k))
    /\ UNCHANGED <<other, ext, treeVars, pc, markRet, evalRet, ret, prevRet, callKind,
                   extChanged, rebound, lastHost, callVars>>

\* fusion::fold: a child's marking has returned and another child follows; the
\* bound functor ors the result into the state and evaluates the next child.
MarkFoldNext ==
    /\ AtReturn("mark")
    /\ LET n == Top.n
       IN  /\ Top.k < Arity(tree, n)
           /\ stack' = Calling([Top EXCEPT !.k = @ + 1,
                                           !.acc = FoldOr(Top.acc, markRet)],
                               Child(tree, n, Top.k + 1))
    /\ UNCHANGED <<other, ext, treeVars, pc, markRet, evalRet, ret, prevRet, callKind,
                   extChanged, rebound, lastHost, callVars>>

\* fusion::fold: the last child's marking has returned;
\* return e.dirty = <the fold's result>.
MarkFoldDone ==
    /\ AtReturn("mark")
    /\ LET n == Top.n
           d == FoldOr(Top.acc, markRet)
       IN  /\ Top.k = Arity(tree, n)
           /\ dirty' = [dirty EXCEPT ![n] = d]
           /\ markRet' = d
           /\ markTrue' = IF d THEN markTrue \cup {n} ELSE markTrue \ {n}
           /\ stack' = Popped
    /\ UNCHANGED <<other, ext, tree, cache, result, pc, evalRet, ret, prevRet,
                   callKind, extChanged, rebound, lastHost, startDiff,
                   markedDirty, markCnt, evalCnt, applyCnt>>

\* reevaluate: proto::eval(e, mark_dirty_context()) has returned (its value is
\* dropped); return proto::eval(e, eval_cache_context()) begins.
BeginEval ==
    /\ pc = "mark"
    /\ stack = << >>
    /\ pc' = "eval"
    /\ stack' = << CallFrame(Root) >>
    /\ markedDirty' = dirty
    /\ UNCHANGED <<other, ext, treeVars, markRet, evalRet, ret, prevRet, callKind,
                   extChanged, rebound, lastHost, startDiff, markCnt, markTrue,
                   evalCnt, applyCnt>>

\* ----------------------------------------------------- eval_cache_context

\* Variant: the flag test is missing and every visited node is recomputed.
NeedsEvalAlways(n) == TRUE

\* Variant: the stored result is returned whatever the flag says.
NeedsEvalNever(n) == FALSE

\* if (e.dirty) { ... }
NeedsEval(n) == dirty[n]

\* Variant: the cache is not refreshed from the external value.
RefreshedStale(n) == cache[n]

\* value.cache = value.src;
Refreshed(n) == ext[tree[n].var]

\* proto::default_eval of a plus node: left + right.
ApplyOp(x, y) == x + y

\* Variant: the flag is left set after evaluation.
ClearedNot == TRUE

\* e.dirty = false;
Cleared == FALSE

\* Variant: a copy of a tree refers to the nodes of the tree it was copied from.
CopiesByValueNot == FALSE

\* memoize_domain::as_child stores every child in its parent by value, and the
\* lambda captures the tree by copy: a copy has nodes of its own.
CopiesByValue == TRUE

\* The second copy after the bound tree's terminal n was given cache c: not
\* affected, as the two copies have no node in common.
OtherSeen(n, c) ==
    IF CopiesByValue \/ other.tree # tree
    THEN other
    ELSE [other EXCEPT !.cache[n] = c, !.dirty[n] = Cleared]

\* Variant: a terminal whose flag is false is not evaluated; its cache is
\* handed to the operator as it is.
EvalTerminalIfDirty ==
    /\ AtCall("eval")
    /\ LET n == Top.n
       IN  /\ IsTerminal(tree, n)
           /\ IF dirty[n]
              THEN /\ cache' = [cache EXCEPT ![n] = Refreshed(n)]
                   /\ dirty' = [dirty EXCEPT ![n] = Cleared]
                   /\ evalCnt' = [evalCnt EXCEPT ![n] = @ + 1]
              ELSE UNCHANGED <<cache, dirty, evalCnt>>
           /\ evalRet' = cache'[n]
           /\ stack' = Popped
    /\ UNCHANGED <<other, ext, tree, result, pc, markRet, ret, prevRet, callKind,
                   extChanged, rebound, lastHost, startDiff, markedDirty,
                   markCnt, markTrue, applyCnt>>

\* eval_cache_context::eval_terminal<Expr, input<T>>::operator(): copies the
\* external value into the cache whatever the flag says, clears the flag and
\* returns the cache.
EvalTerminal ==
    /\ AtCall("eval")
    /\ LET n == Top.n
       IN  /\ IsTerminal(tree, n)
           /\ cache' = [cache EXCEPT ![n] = Refreshed(n)]
           /\ dirty' = [dirty EXCEPT ![n] = Cleared]
           /\ other' = OtherSeen(n, cache'[n])
           /\ evalRet' = cache'[n]
           /\ evalCnt' = [evalCnt EXCEPT ![n] = @ + 1]
           /\ stack' = Popped
    /\ UNCHANGED <<ext, tree, result, pc, markRet, ret, prevRet, callKind,
                   extChanged, rebound, lastHost, startDiff, markedDirty,
                   markCnt, markTrue, applyCnt>>

\* eval_cache_context::eval::operator() on a clean node: return e.result;
EvalCached ==
    /\ AtCall("eval")
    /\ LET n == Top.n
       IN  /\ ~IsTerminal(tree, n)
           /\ ~NeedsEval(n)
           /\ evalRet' = result[n]
           /\ evalCnt' = [evalCnt EXCEPT ![n] = @ + 1]
           /\ stack' = Popped
    /\ UNCHANGED <<other, ext, treeVars, pc, markRet, ret, prevRet, callKind,
                   extChanged, rebound, lastHost, startDiff, markedDirty,
                   markCnt, markTrue, applyCnt>>

\* eval_cache_context::eval::operator() on a dirty node: base_type::operator()
\* evaluates proto::eval(left) + proto::eval(right); C++ leaves the order of
\* the two operand evaluations to the compiler.
EvalDescend ==
    /\ AtCall("eval")
    /\ LET n == Top.n
       IN  /\ ~IsTerminal(tree, n)
           /\ NeedsEval(n)
           /\ evalCnt' = [evalCnt EXCEPT ![n] = @ + 1]
           /\ \E c \in 1..Arity(tree, n) :
                 stack' = Calling([Top EXCEPT !.st = "wait", !.k = c,
                                       !.todo = (1..Arity(tree, n)) \ {c},
                                       !.vals = [i \in 1..Arity(tree, n) |-> 0]],
                                  Child(tree, n, c))
    /\ UNCHANGED <<other, ext, treeVars, pc, markRet, evalRet, ret, prevRet, callKind,
                   extChanged, rebound, lastHost, startDiff, markedDirty,
                   markCnt, markTrue, applyCnt>>

\* One operand's value is back and the other operand is still to be evaluated.
EvalOperandNext ==
    /\ AtReturn("eval")
    /\ Top.todo # {}
    /\ \E c \in Top.todo :
          stack' = Calling([Top EXCEPT !.k = c, !.todo = @ \ {c},
                                       !.vals = [@ EXCEPT ![Top.k] = evalRet]],
                           Child(tree, Top.n, c))
    /\ UNCHANGED <<other, ext, treeVars, pc, markRet, evalRet, ret, prevRet, callKind,
                   extChanged, rebound, lastHost, callVars>>

\* Both operands' values are back: e.result = left + right; e.dirty = false;
\* return e.result;
EvalApply ==
    /\ AtReturn("eval")
    /\ Top.todo = {}
    /\ LET n == Top.n
           v == [Top.vals EXCEPT ![Top.k] = evalRet]
       IN  /\ result' = [result EXCEPT ![n] = ApplyOp(v[1], v[2])]
           /\ dirty' = [dirty EXCEPT ![n] = Cleared]
           /\ evalRet' = result'[n]
           /\ applyCnt' = [applyCnt EXCEPT ![n] = @ + 1]
           /\ stack' = Popped
    /\ UNCHANGED <<other, ext, tree, cache, pc, markRet, ret, prevRet, callKind,
                   extChanged, rebound, lastHost, startDiff, markedDirty,
                   markCnt, markTrue, evalCnt>>

\* reevaluate returns what proto::eval(e, eval_cache_context()) returned.
Finish ==
    /\ pc = "eval"
    /\ stack = << >>
    /\ pc' = "done"
    /\ ret' = evalRet
    /\ UNCHANGED <<other, ext, treeVars, stack, markRet, evalRet, prevRet, callKind,
                   extChanged, rebound, lastHost, callVars>>

\* Control is back in the host (the lambda in _f drops the value).
Return ==
    /\ pc = "done"
    /\ pc' = "idle"
    /\ extChanged' = FALSE
    /\ prevRet' = 0
    /\ markRet' = FALSE
    /\ evalRet' = 0
    /\ rebound' = FALSE
    /\ ResetCall(tree)
    /\ UNCHANGED <<other, ext, treeVars, stack, ret, callKind, lastHost>>

\* ------------------------------------------------------------ specification

Next ==
    \/ \E t \in Trees : Bind(t)
    \/ \E v \in Vars, x \in Values : SetExt(v, x)
    \/ RenderUnbound
    \/ RenderBound
    \/ MarkTerminal
    \/ MarkShortCircuit
    \/ MarkDescend
    \/ MarkFoldNext
    \/ MarkFoldDone
    \/ BeginEval
    \/ EvalTerminal
    \/ EvalCached
    \/ EvalDescend
    \/ EvalOperandNext
    \/ EvalApply
    \/ Finish
    \/ Return

Spec == Init /\ [][Next]_vars

\* The steps of a reevaluate call in progress, up to its return statement.
Step ==
    \/ MarkTerminal
    \/ MarkShortCircuit
    \/ MarkDescend
    \/ MarkFoldNext
    \/ MarkFoldDone
    \/ BeginEval
    \/ EvalTerminal
    \/ EvalCached
    \/ EvalDescend
    \/ EvalOperandNext
    \/ EvalApply
    \/ Finish

\* reevaluate is a synchronous call on the host's thread: once entered, it
\* keeps executing until it returns.
FairSpec == Spec /\ WF_vars(Step)

\* The shapes the host builds when it keeps two copies.
TwoTrees == {TreeA, TreeAB}

\* The host builds a tree and binds it (renderer::operator= copies it into
\* _f) while keeping the tree it built, or binds it to two slots: two fresh
\* trees of one shape over the same external values, each with an
\* indeterminate result in every operator node.
Build(t) ==
    /\ pc = "idle"
    /\ tree' = t
    /\ dirty' = BoundDirty(t)
    /\ cache' = BoundCache(t)
    /\ result' \in [Operators(t) -> Indeterminate]
    /\ \E r \in [Operators(t) -> Indeterminate] :
          other' = [tree |-> t, dirty |-> BoundDirty(t), cache |-> BoundCache(t),
                    result |-> r, callKind |-> "none"]
    /\ callKind' = "none"
    /\ rebound' = FALSE
    /\ extChanged' = FALSE
    /\ lastHost' = "bind"
    /\ ret' = 0
    /\ prevRet' = 0
    /\ ResetCall(t)
    /\ UNCHANGED <<ext, pc, stack, markRet, evalRet>>

\* The host turns to its other copy: the next trigger runs on that one. The
\* tree variables describe the copy the host is about to call, `other` the
\* copy left aside.
Switch ==
    /\ pc = "idle"
    /\ other.tree # NoTree
    /\ tree' = other.tree
    /\ dirty' = other.dirty
    /\ cache' = other.cache
    /\ result' = other.result
    /\ callKind' = other.callKind
    /\ other' = [tree |-> tree, dirty |-> dirty, cache |-> cache,
                 result |-> result, callKind |-> callKind]
    /\ extChanged' = TRUE
    /\ rebound' = FALSE
    /\ prevRet' = 0
    /\ ResetCall(other.tree)
    /\ UNCHANGED <<ext, pc, stack, markRet, evalRet, ret, lastHost>>

\* A host with two copies of its tree.
Next2 ==
    \/ \E t \in TwoTrees : Build(t)
    \/ Switch
    \/ \E v \in Vars, x \in Values : SetExt(v, x)
    \/ RenderUnbound
    \/ RenderBound
    \/ Step
    \/ Return

SpecTwo == Init /\ [][Next2]_vars

\* ------------------------------------------------------ reference semantics

\* The value of the subtree at node n of tree t computed from scratch over
\* the external values e.
RECURSIVE FromScratch(_, _, _)
FromScratch(t, n, e) ==
    IF IsTerminal(t, n)
    THEN e[t[n].var]
    ELSE ApplyOp(FromScratch(t, Child(t, n, 1), e), FromScratch(t, Child(t, n, 2), e))

\* The terminals in the subtree at node n.
RECURSIVE TermsBelow(_, _)
TermsBelow(t, n) ==
    IF IsTerminal(t, n)
    THEN {n}
    ELSE TermsBelow(t, Child(t, n, 1)) \cup TermsBelow(t, Child(t, n, 2))

TypeOK ==
    /\ ext \in [Vars -> Values]
    /\ tree \in Trees \cup {NoTree}
    /\ pc \in {"idle", "mark", "eval", "done"}
    /\ dirty \in [Nodes(tree) -> BOOLEAN]
    /\ cache \in [Terminals(tree) -> Values]
    /\ DOMAIN result = Operators(tree)
    /\ callKind \in {"none", "first", "later"}

\* ------------------------------------------------------------------ claims

Done == pc = "done"

\* A call after the first one on the bound tree has just completed.
DoneLater == pc = "done" /\ callKind = "later"

\* C1: every reevaluate call returns the value obtained by evaluating the
\* tree from scratch over the external values current at that call, on the
\* first call as on later ones, and for a tree that is a single terminal.
C1_ReturnsFromScratch ==
    Done => ret = FromScratch(tree, Root, ext)

C1_Witness ==
    /\ DoneLater
    /\ tree = TreeUI
    /\ startDiff # {}
    /\ ret = FromScratch(tree, Root, ext)
    /\ ret # prevRet

\* The root's value was computed anew by the call: its operator was applied,
\* or, for a single terminal, its cache was refreshed.
RootRecomputed ==
    IF IsTerminal(tree, Root) THEN evalCnt[Root] = 1 ELSE applyCnt[Root] = 1

\* C2: after a completed reevaluate, when exactly one terminal sees a value
\* different from its cache and reevaluate is called, that terminal's
\* compareAndMark returns true, every other terminal's returns false, the root
\* is recomputed and the result is the new from-scratch value.
C2_SingleChange ==
    (DoneLater /\ Cardinality(startDiff) = 1) =>
        /\ \A n \in Terminals(tree) :
              markCnt[n] = 1 /\ (n \in markTrue <=> n \in startDiff)
        /\ RootRecomputed
        /\ ret = FromScratch(tree, Root, ext)

C2_Witness ==
    /\ DoneLater
    /\ tree = TreeUI
    /\ startDiff = {5}
    /\ markTrue \cap Terminals(tree) = {5}
    /\ applyCnt[Root] = 1

\* C3: with no external value changed between two consecutive reevaluate
\* calls both return the same result, and once a call has completed every
\* node's dirty flag is false.
C3_Idempotence ==
    /\ (pc \in {"done", "idle"} /\ callKind # "none") =>
           \A n \in Nodes(tree) : ~dirty[n]
    /\ (DoneLater /\ ~extChanged) => ret = prevRet

C3_Witness ==
    /\ DoneLater
    /\ ~extChanged
    /\ ~IsTerminal(tree, Root)
    /\ ret = prevRet
    /\ ret > 0

\* C4: in a call after a completed reevaluate, a terminal whose external value
\* equals its cache has its compareAndMark return false; when that is so for
\* every terminal (a value rewritten with the same value, or changed away and
\* back), no operator is applied anywhere in the tree and nothing below the
\* root is visited by the evaluation pass.
C4_NoOpChange ==
    DoneLater =>
        /\ \A n \in Terminals(tree) \ startDiff :
              markCnt[n] = 1 /\ n \notin markTrue
        /\ startDiff = {} =>
              /\ \A n \in Operators(tree) : applyCnt[n] = 0
              /\ \A n \in Nodes(tree) \ {Root} : evalCnt[n] = 0
              /\ ret = prevRet

C4_Witness ==
    /\ DoneLater
    /\ extChanged
    /\ startDiff = {}
    /\ ~IsTerminal(tree, Root)
    /\ \A n \in Operators(tree) : applyCnt[n] = 0

\* Some terminal below node n saw a changed value when the call began.
ChangedBelow(n) == TermsBelow(tree, n) \cap startDiff # {}

\* C5: in a call after the first, an operator node's operator is applied
\* exactly when some terminal in its subtree differed from its cache at the
\* start of the call, and the evaluation pass does not visit the children of
\* an operator node with no such terminal.
C5_MinimalRecomputation ==
    DoneLater =>
        \A n \in Operators(tree) :
            /\ applyCnt[n] = (IF ChangedBelow(n) THEN 1 ELSE 0)
            /\ ~ChangedBelow(n) =>
                  \A k \in 1..Arity(tree, n) : evalCnt[Child(tree, n, k)] = 0

C5_Witness ==
    /\ DoneLater
    /\ tree = TreeQ
    /\ startDiff = {4}
    /\ applyCnt[1] = 1
    /\ applyCnt[2] = 1
    /\ applyCnt[3] = 0
    /\ evalCnt[6] = 0
    /\ evalCnt[7] = 0

\* C6: a tree assigned to the slot starts with every flag set and every cache
\* at its initial value whatever the slot held before, and the first
\* reevaluate on it applies every operator, refreshes every terminal and
\* returns the from-scratch value.
C6_RebindDiscardsCache ==
    /\ (Bound /\ callKind = "none") =>
           /\ \A n \in Nodes(tree) : dirty[n]
           /\ \A n \in Terminals(tree) : cache[n] = FreshCache
    /\ (Done /\ callKind = "first") =>
           /\ \A n \in Operators(tree) : applyCnt[n] = 1
           /\ \A n \in Terminals(tree) : evalCnt[n] = 1 /\ cache[n] = ext[tree[n].var]
           /\ ret = FromScratch(tree, Root, ext)

C6_Witness ==
    /\ Done
    /\ callKind = "first"
    /\ rebound
    /\ tree = TreeQ
    /\ \A n \in Operators(tree) : applyCnt[n] = 1

\* C7: triggering a slot with no tree bound runs no marking or evaluation
\* step and changes no external value and no node state; the slot stays
\* unbound and in host code, where it can be bound and triggered.
C7_UnboundTriggerIsNoOp ==
    /\ [](~Bound => (pc = "idle" /\ stack = << >> /\ dirty = << >>
                     /\ cache = << >> /\ result = << >>))
    /\ [][(~Bound /\ lastHost # "noop" /\ lastHost' = "noop") =>
              UNCHANGED <<other, ext, treeVars, pc, stack, callVars>>]_vars

C7_Witness ==
    /\ ~Bound
    /\ lastHost = "noop"
    /\ pc = "idle"

\* The value the evaluation pass left at the root.
RootValue == IF IsTerminal(tree, Root) THEN cache[Root] ELSE result[Root]

\* C8: in every reevaluate call the marking started at the root has returned
\* before the evaluation pass begins: while marking runs no node is evaluated
\* and no cache or cachedResult is written, once evaluation runs no marking
\* operation runs, and reevaluate returns what evaluation returned at the root.
C8_PassOrdering ==
    /\ [](pc = "mark" =>
             \A n \in Nodes(tree) : evalCnt[n] = 0 /\ applyCnt[n] = 0)
    /\ [](pc \in {"eval", "done"} => markCnt[Root] = 1)
    /\ [](Done => (ret = evalRet /\ ret = RootValue))
    /\ [][pc = "mark" => UNCHANGED <<cache, result>>]_vars
    /\ [][pc = "eval" => UNCHANGED <<markCnt, markTrue, markRet>>]_vars

C8_Witness ==
    /\ pc = "eval"
    /\ callKind = "later"
    /\ Len(stack) = 2
    /\ \A n \in Nodes(tree) : markCnt[n] = 1
    /\ \E n \in Terminals(tree) : evalCnt[n] = 1

\* The evaluation pass wrote node n: refreshed a terminal's cache or stored
\* an operator's cachedResult.
EvalTouched(n) == IF IsTerminal(tree, n) THEN evalCnt[n] > 0 ELSE applyCnt[n] > 0

\* C9 as stated: every trigger on a bound slot, the first one included, runs
\* each terminal's compareAndMark once, and its evaluation pass touches, below
\* the root where it enters, only nodes the marking pass left dirty.
C9_AsStated ==
    Done =>
        /\ \A n \in Terminals(tree) : markCnt[n] = 1
        /\ \A n \in Nodes(tree) \ {Root} : EvalTouched(n) => markedDirty[n]

\* C9 as amended: every trigger on a bound slot runs the marking operation
\* once at the root, then the evaluation operation once at the root.  On the
\* first call on a freshly built tree whose root is an operator the marking
\* stops at the root and runs on no other node; on every other call it runs
\* exactly once on every node.  Evaluation applies exactly the operators that
\* marking left dirty and visits exactly their children, refreshing a terminal
\* child whether or not that terminal is dirty itself.
C9_OnePassEach ==
    Done =>
        /\ markCnt[Root] = 1
        /\ evalCnt[Root] = 1
        /\ (callKind = "first" /\ ~IsTerminal(tree, Root)) =>
               \A n \in Nodes(tree) \ {Root} : markCnt[n] = 0
        /\ (callKind = "later" \/ IsTerminal(tree, Root)) =>
               \A n \in Nodes(tree) : markCnt[n] = 1
        /\ \A n \in Operators(tree) :
               /\ applyCnt[n] = (IF markedDirty[n] THEN 1 ELSE 0)
               /\ \A k \in 1..Arity(tree, n) :
                     evalCnt[Child(tree, n, k)] = (IF markedDirty[n] THEN 1 ELSE 0)

C9_Witness ==
    /\ Done
    /\ callKind = "first"
    /\ tree = TreeUI
    /\ markCnt = <<1, 0, 0, 0, 0>>
    /\ evalCnt = <<1, 1, 1, 1, 1>>

\* C10: after any completed reevaluate every node's dirty flag is false, every
\* terminal's cache equals its external value and every operator node's
\* cachedResult equals the from-scratch value of its subtree.
C10_ConsistentAfterCall ==
    Done =>
        /\ \A n \in Nodes(tree) : ~dirty[n]
        /\ \A n \in Terminals(tree) : cache[n] = ext[tree[n].var]
        /\ \A n \in Operators(tree) : result[n] = FromScratch(tree, n, ext)

C10_Witness ==
    /\ DoneLater
    /\ tree = TreeQ
    /\ startDiff = {6}
    /\ applyCnt[2] = 0
    /\ result[2] = FromScratch(tree, 2, ext)
    /\ result[3] = FromScratch(tree, 3, ext)
    /\ result[2] > 0

\* A proto::eval call on a child is being made by this step.
Pushing == Len(stack') = Len(stack) + 1 /\ stack # << >>

\* The node the step calls proto::eval on.
Pushed == stack'[Len(stack')].n

\* C11: marking an operator node whose flag is false invokes the marking of
\* every child, first to last, also after an earlier child returned true, and
\* sets the node's flag to the or of the children's results; so after the
\* marking pass of a call that started with all operator flags clean every
\* node was marked once, a terminal's flag is (external value # cache) and an
\* operator's flag is true exactly when a terminal below it is dirty.
C11_MarksEverySibling ==
    /\ []((pc \in {"eval", "done"} /\ callKind = "later") =>
             /\ \A n \in Nodes(tree) : markCnt[n] = 1
             /\ \A n \in Terminals(tree) : markedDirty[n] = (n \in startDiff)
             /\ \A n \in Operators(tree) :
                   /\ markedDirty[n] = ChangedBelow(n)
                   /\ markedDirty[n] =
                         (\E k \in 1..Arity(tree, n) : markedDirty[Child(tree, n, k)]))
    /\ [][(pc = "mark" /\ Pushing) =>
             Pushed = Child(tree, Top.n, IF Top.st = "call" THEN 1 ELSE Top.k + 1)]_vars

C11_Witness ==
    /\ pc = "mark"
    /\ callKind = "later"
    /\ tree = TreeQ
    /\ startDiff = {4, 6}
    /\ markCnt[4] = 1 /\ 4 \in markTrue
    /\ markCnt[5] = 1 /\ 5 \notin markTrue
    /\ markCnt[7] = 1
    /\ stack = << >>
    /\ dirty = <<TRUE, TRUE, TRUE, TRUE, FALSE, TRUE, FALSE>>

\* The nodes strictly below node n of tree t.
RECURSIVE Below(_, _)
Below(t, n) ==
    IF IsTerminal(t, n) THEN {}
    ELSE UNION {{Child(t, n, k)} \cup Below(t, Child(t, n, k)) : k \in 1..Arity(t, n)}

\* The marking of an operator node is about to run.
MarkingOperator ==
    /\ pc = "mark"
    /\ stack # << >>
    /\ Top.st = "call"
    /\ ~IsTerminal(tree, Top.n)

\* Operator n was marked while already dirty: none of its children was marked.
ShortCircuited(n) ==
    /\ markCnt[n] = 1
    /\ n \in markTrue
    /\ \A m \in Below(tree, n) : markCnt[m] = 0

\* C12: marking an operator node whose flag is already true returns true at
\* once: no child's marking is invoked and no flag below it changes; and the
\* evaluation pass following such a marking still returns the from-scratch
\* value, with every operator's stored result the from-scratch one.
C12_DirtyShortCircuit ==
    /\ [][(MarkingOperator /\ dirty[Top.n]) =>
             /\ markRet' = TRUE
             /\ stack' = Popped
             /\ dirty' = dirty
             /\ \A m \in Below(tree, Top.n) : markCnt'[m] = markCnt[m]
             /\ UNCHANGED <<cache, result, ext>>]_vars
    /\ []((Done /\ \E n \in Operators(tree) : ShortCircuited(n)) =>
             /\ ret = FromScratch(tree, Root, ext)
             /\ \A n \in Operators(tree) : result[n] = FromScratch(tree, n, ext))

C12_Witness ==
    /\ Done
    /\ tree = TreeQ
    /\ ShortCircuited(Root)
    /\ ret = 2
    /\ applyCnt = <<1, 1, 1, 0, 0, 0, 0>>

\* The operator flags are being consulted: marking has completed and the
\* evaluation pass has not yet returned to the host.
FlagsConsulted == (pc = "mark" /\ stack = << >>) \/ pc = "eval" \/ pc = "done"

\* C13: from the end of the marking pass and throughout the evaluation pass,
\* an operator node whose flag is false stores the value that applying its
\* operator to the current values of its children produces (external values
\* for terminals, from-scratch values for nested operators).
C13_CleanMeansValid ==
    FlagsConsulted =>
        \A n \in Operators(tree) :
            ~dirty[n] => result[n] = FromScratch(tree, n, ext)

C13_Witness ==
    /\ pc = "eval"
    /\ callKind = "later"
    /\ tree = TreeUI
    /\ startDiff = {3}
    /\ dirty[1] /\ ~dirty[2]
    /\ ext["i1"] = 1
    /\ result[2] = ext["i1"] + ext["i2"]

\* C14: during a marking pass an operator node's flag only goes from false to
\* true; an operator's flag goes from true to false only in the evaluation
\* pass, in the step that applies the operator and stores the new result.
C14_FlagMonotone ==
    [][tree' = tree =>
          \A n \in Operators(tree) :
              /\ (pc = "mark" /\ dirty[n]) => dirty'[n]
              /\ (dirty[n] /\ ~dirty'[n]) =>
                    /\ pc = "eval"
                    /\ applyCnt'[n] = applyCnt[n] + 1
                    /\ evalRet' = result'[n]
                    /\ result'[n] =
                          ApplyOp(IF IsTerminal(tree, Child(tree, n, 1))
                                    THEN cache'[Child(tree, n, 1)]
                                    ELSE result'[Child(tree, n, 1)],
                                  IF IsTerminal(tree, Child(tree, n, 2))
                                    THEN cache'[Child(tree, n, 2)]
                                    ELSE result'[Child(tree, n, 2)])]_vars

C14_Witness ==
    /\ pc = "eval"
    /\ callKind = "later"
    /\ tree = TreeUI
    /\ markedDirty[2] /\ markedDirty[1]
    /\ applyCnt[2] = 1 /\ ~dirty[2]
    /\ applyCnt[1] = 0 /\ dirty[1]

\* The marking of a terminal is about to run.
MarkingTerminal ==
    /\ pc = "mark"
    /\ stack # << >>
    /\ Top.st = "call"
    /\ IsTerminal(tree, Top.n)

\* C15: a marking pass changes nothing but dirty flags: no terminal's cache, no
\* operator's stored result and no external value; marking a terminal sets
\* its flag to exactly (external value # cache) and returns that flag, leaving
\* every other flag alone.
C15_MarkingFrame ==
    /\ [][pc = "mark" => UNCHANGED <<other, ext, cache, result, tree>>]_vars
    /\ [][MarkingTerminal =>
             /\ dirty' = [dirty EXCEPT ![Top.n] = (ext[tree[Top.n].var] # cache[Top.n])]
             /\ markRet' = dirty'[Top.n]
             /\ stack' = Popped]_vars

C15_Witness ==
    /\ pc = "mark"
    /\ callKind = "later"
    /\ tree = TreeAB
    /\ markCnt[2] = 1 /\ dirty[2] /\ cache[2] # ext["i1"]
    /\ markCnt[3] = 1 /\ ~dirty[3] /\ cache[3] = ext["i2"]
    /\ markRet = FALSE

\* The value node c of the bound tree holds after the step: the cache of a
\* terminal, the stored result of an operator.
HeldNext(c) == IF IsTerminal(tree, c) THEN cache'[c] ELSE result'[c]

\* The evaluation of node n is about to run.
Evaluating(n) ==
    /\ pc = "eval"
    /\ stack # << >>
    /\ Top.st = "call"
    /\ Top.n = n

\* C16: when the evaluation pass reaches an operator node whose flag is true
\* it evaluates every child once and unconditionally, in an order the
\* implementation chooses: a terminal child has its external value copied into
\* its cache and its flag cleared whatever its own flag was, an operator child
\* has its evaluation called; it then applies the operator once to the
\* children's results, stores the value, clears the flag and returns the
\* stored value.
C16_DirtyOperatorEvaluatesAll ==
    /\ [][\A n \in Operators(tree) :
             (Evaluating(n) /\ dirty[n]) =>
                 /\ Pushing
                 /\ \E k \in 1..Arity(tree, n) : Pushed = Child(tree, n, k)]_vars
    /\ [][\A n \in Terminals(tree) :
             Evaluating(n) =>
                 /\ cache' = [cache EXCEPT ![n] = ext[tree[n].var]]
                 /\ dirty' = [dirty EXCEPT ![n] = FALSE]
                 /\ evalRet' = cache'[n]
                 /\ evalCnt'[n] = evalCnt[n] + 1]_vars
    /\ [][\A n \in Operators(tree) :
             (tree' = tree /\ pc = "eval" /\ dirty[n] /\ ~dirty'[n]) =>
                 /\ \A k \in 1..Arity(tree, n) :
                       LET c == Child(tree, n, k)
                       IN  /\ evalCnt[c] = 1
                           /\ ~dirty[c]
                           /\ IsTerminal(tree, c) => cache[c] = ext[tree[c].var]
                 /\ applyCnt[n] = 0 /\ applyCnt'[n] = 1
                 /\ result'[n] = ApplyOp(HeldNext(Child(tree, n, 1)),
                                         HeldNext(Child(tree, n, 2)))
                 /\ evalRet' = result'[n]
                 /\ stack' = Popped]_vars

\* C16 as stated: in addition the children are evaluated first to last.
C16_AsStated ==
    /\ C16_DirtyOperatorEvaluatesAll
    /\ [][(pc = "eval" /\ Pushing) =>
             Pushed = Child(tree, Top.n, IF Top.st = "call" THEN 1 ELSE Top.k + 1)]_vars

C16_Witness ==
    /\ pc = "eval"
    /\ callKind = "later"
    /\ tree = TreeUI
    /\ startDiff = {4}
    /\ applyCnt[1] = 1 /\ ~dirty[1]
    /\ applyCnt[2] = 1 /\ ~dirty[2]
    /\ 5 \notin markTrue /\ evalCnt[5] = 1
    /\ 3 \notin markTrue /\ evalCnt[3] = 1
    /\ stack = << >>

\* The value node c of the bound tree holds: the cache of a terminal, the
\* stored result of an operator.
Held(c) == IF IsTerminal(tree, c) THEN cache[c] ELSE result[c]

\* Terminal c is an unchanged child of operator n, and n was recomputed in
\* this call.
UnchangedUnderRecomputed(n, c) ==
    /\ applyCnt[n] = 1
    /\ \E k \in 1..Arity(tree, n) : c = Child(tree, n, k)
    /\ IsTerminal(tree, c)
    /\ c \notin startDiff

\* C17 as stated: the unchanged terminal child of a recomputed operator is
\* marked but not evaluated.
C17_AsStated ==
    DoneLater =>
        \A n \in Operators(tree) : \A c \in Terminals(tree) :
            UnchangedUnderRecomputed(n, c) =>
                /\ markCnt[c] = 1
                /\ evalCnt[c] = 0

\* C17: when an operator node is recomputed on a later call because a sibling
\* is dirty, an unchanged terminal child of it has its marking comparison run
\* and reported clean, and is evaluated all the same: its cache is rewritten
\* with the external value, which equals the value it held, and the operator
\* uses that value.
C17_UnchangedTerminalRefreshed ==
    DoneLater =>
        \A n \in Operators(tree) : \A c \in Terminals(tree) :
            UnchangedUnderRecomputed(n, c) =>
                /\ markCnt[c] = 1
                /\ c \notin markTrue
                /\ evalCnt[c] = 1
                /\ cache[c] = ext[tree[c].var]
                /\ result[n] = ApplyOp(Held(Child(tree, n, 1)), Held(Child(tree, n, 2)))

C17_Witness ==
    /\ DoneLater
    /\ tree = TreeAB
    /\ startDiff = {2}
    /\ UnchangedUnderRecomputed(1, 3)
    /\ evalCnt[3] = 1
    /\ cache[3] = 1
    /\ ret = 1

\* The stored result of clean operator n is its operator applied to the values
\* its children hold.
ResultMatchesHeld(n) ==
    result[n] = ApplyOp(Held(Child(tree, n, 1)), Held(Child(tree, n, 2)))

\* No operator below n is dirty.
CleanBelow(n) == \A m \in Below(tree, n) \cap Operators(tree) : ~dirty[m]

\* C19 as stated: in every reachable state a clean operator stores its
\* operator applied to the values its children hold, and every operator
\* below it is clean too.
C19_AsStated ==
    \A n \in Operators(tree) :
        ~dirty[n] => (ResultMatchesHeld(n) /\ CleanBelow(n))

\* C19: in every reachable state, mid-pass and between calls included, an
\* operator node whose flag is false stores its operator applied to the values
\* its children hold (cache of a terminal child, stored result of an operator
\* child); and whenever no marking pass is in progress every operator below
\* such a node has its flag false as well.
C19_CleanResultCached ==
    \A n \in Operators(tree) :
        ~dirty[n] => (ResultMatchesHeld(n) /\ (pc # "mark" => CleanBelow(n)))

C19_Witness ==
    /\ pc = "idle"
    /\ callKind = "later"
    /\ tree = TreeUI
    /\ Differing = {4}
    /\ ~dirty[1] /\ ~dirty[2]
    /\ result[1] # FromScratch(tree, 1, ext)
    /\ ResultMatchesHeld(1) /\ ResultMatchesHeld(2)

\* A reevaluate call is executing.
InCall == pc \in {"mark", "eval"}

\* C18: every reevaluate call terminates, and within one call every node's
\* marking runs at most once, every operator is applied at most once and
\* every terminal's cache is refreshed at most once.
C18_TerminatesOncePerNode ==
    /\ [](\A n \in Nodes(tree) :
             /\ markCnt[n] <= 1
             /\ evalCnt[n] <= 1
             /\ applyCnt[n] <= 1)
    /\ (InCall ~> Done)

C18_Witness ==
    /\ Done
    /\ callKind = "later"
    /\ tree = TreeQ
    /\ startDiff = {4, 5, 6, 7}
    /\ markCnt = <<1, 1, 1, 1, 1, 1, 1>>
    /\ evalCnt = <<1, 1, 1, 1, 1, 1, 1>>
    /\ applyCnt = <<1, 1, 1, 0, 0, 0, 0>>

\* C20: two trees over the same external values are independent: a copy has
\* nodes of its own, so no step of a reevaluate call on one tree changes a
\* cache, a stored result or a flag of the other, and under any interleaving
\* of calls and external writes every call returns the from-scratch value of
\* the tree it ran on.
C20_CopiesIndependent ==
    /\ [][(InCall \/ Done) => other' = other]_vars
    /\ [](Done => ret = FromScratch(tree, Root, ext))

C20_Witness ==
    /\ Done
    /\ callKind = "later"
    /\ tree = TreeAB
    /\ other.tree = TreeAB
    /\ other.callKind = "later"
    /\ other.cache # cache
    /\ other.result # result
    /\ \E n \in Terminals(tree) : other.cache[n] # ext[tree[n].var]
    /\ applyCnt[1] = 1

====
